---- MODULE Spec2Model ----
(***************************************************************************)
(* Model of testutils/helper/install.go: the SoloTestHelper that resolves  *)
(* a test configuration (NewSoloTestHelper) and installs / uninstalls Gloo *)
(* through the glooctl executable, optionally driving a test runner.       *)
(*                                                                         *)
(* Strings are Go strings, paths are built with filepath.Join, commands    *)
(* are the argument lists handed to exec.RunCommand.  Everything the       *)
(* helper does to the outside world (subprocesses, runner Deploy and       *)
(* Terminate) is recorded, call by call, in the history variable calls.    *)
(***************************************************************************)
EXTENDS Naturals, Sequences, FiniteSets, TLC

VARIABLES
    fs,        \* the file system: path -> "dir" | "file" (absent: missing)
    index,     \* the Helm index file under <root>/<test assets>
    called,    \* NewSoloTestHelper has been called
    input,     \* history: the arguments and outcomes of that call
    helper,    \* the *SoloTestHelper it returned (NilPtr or Ptr(..))
    newErr,    \* the error it returned
    calls,     \* history: one record per method call made on the helper
    panicked   \* a method was called through a nil helper

vars == <<fs, index, called, input, helper, newErr, calls, panicked>>

(***************************** bounds ***************************************)
MaxOps == 2
MaxEntries == 2

(***************************** Go basics ************************************)
\* the nil error
nil == "<nil>"

\* pointers: nil, or a pointer to a value
NilPtr == <<>>
Ptr(v) == <<v>>
Deref(p) == p[1]

\* errors.Errorf / errors.Wrapf (github.com/solo-io/go-utils/errors):
\* Wrapf of a nil error is nil, otherwise "<message>: <cause>"
Errorf(msg) == msg
Wrapf(err, msg) == IF err = nil THEN nil ELSE msg \o ": " \o err

\* filepath.Join: empty elements are ignored, the rest joined by the separator
Join2(a, b) ==
    IF a = "" THEN b
    ELSE IF b = "" THEN a
    ELSE a \o "/" \o b
Join3(a, b, c) == Join2(Join2(a, b), c)

\* runtime.GOOS of the build
GOOS == "linux"

GATEWAY == "gateway"
INGRESS == "ingress"
KNATIVE == "knative"

\* var defaults
defaults ==
    [ RootDir               |-> "",
      TestAssetDir          |-> "_test",
      BuildAssetDir         |-> "_output",
      HelmChartName         |-> "",
      HelmRepoIndexFileName |-> "index.yaml",
      InstallNamespace      |-> "",
      GlooctlExecName       |-> "glooctl-" \o GOOS \o "-amd64",
      LicenseKey            |-> "",
      DeployTestRunner      |-> TRUE,
      version               |-> "" ]

(***************************** inputs ***************************************)
Versions == {"1.2.3", "0.9.0"}
ChartNames == {"gloo", "other"}
RootDirs == {"root"}
Namespaces == {"", "gloo-system"}
LicenseKeys == {"", "ABC"}
DeploymentTypes == {GATEWAY, KNATIVE}
Timeouts == {30, 60}

\* The override functions handed to NewSoloTestHelper: nil, or a function
\* that returns the defaults with these fields set.
ConfigFuncs ==
    {NilPtr} \cup
    { Ptr([RootDir |-> r, HelmChartName |-> c, InstallNamespace |-> n,
           LicenseKey |-> k, DeployTestRunner |-> d]) :
        r \in RootDirs, c \in {"gloo"}, n \in Namespaces,
        k \in LicenseKeys, d \in BOOLEAN }

\* configFunc(defaults)
ApplyConfigFunc(f, d) ==
    [d EXCEPT !.RootDir = Deref(f).RootDir,
              !.HelmChartName = Deref(f).HelmChartName,
              !.InstallNamespace = Deref(f).InstallNamespace,
              !.LicenseKey = Deref(f).LicenseKey,
              !.DeployTestRunner = Deref(f).DeployTestRunner]

RECURSIVE SeqsUpTo(_, _)
SeqsUpTo(S, n) ==
    IF n = 0 THEN {<<>>}
    ELSE LET shorter == SeqsUpTo(S, n - 1)
         IN  shorter \cup { Append(s, x) : s \in {t \in shorter : Len(t) = n - 1}, x \in S }

\* the entries of an index file: chart name -> list of chart versions; the
\* list of "gloo" varies, another chart, when present, has one version
IndexEntries ==
    { [c \in D |-> IF c = "gloo" THEN l ELSE <<"1.2.3">>] :
        D \in SUBSET ChartNames, l \in SeqsUpTo(Versions, MaxEntries) }

(***************************** environment **********************************)
\* os.Stat(dir): what is at the path
Stat(dir) == IF dir \in DOMAIN fs THEN fs[dir] ELSE "missing"
StatErr(dir) == "stat " \o dir \o ": no such file or directory"

\* repo.LoadIndexFile(path): <<entries, err>>
LoadIndexFile(path) ==
    IF index.path = path /\ index.parses
    THEN <<index.Entries, nil>>
    ELSE <<index.Entries, "loading index file " \o path>>

\* NewTestRunner(namespace): <<runner, err>>; outcome is what its
\* construction does in this run
NewTestRunner(namespace, outcome) ==
    IF outcome = nil
    THEN <<Ptr([namespace |-> namespace]), nil>>
    ELSE <<NilPtr, outcome>>

\* one thing done to the outside world
Event(kind, dir, args, timeout, ns, result) ==
    [kind |-> kind, dir |-> dir, args |-> args, timeout |-> timeout,
     ns |-> ns, result |-> result]

\* exec.RunCommand(workingDir, verbose, args...) with its result
RunCommand(workingDir, args, result) ==
    Event("exec", workingDir, args, 0, "", result)
\* TestRunner.Deploy(timeout) with its result
Deploy(runner, timeout, result) ==
    Event("deploy", "", <<>>, timeout, Deref(runner).namespace, result)
\* TestRunner.Terminate() with its result
Terminate(runner, result) ==
    Event("terminate", "", <<>>, 0, Deref(runner).namespace, result)

ExecResults == {nil, "exit status 1"}
DeployResults == {nil, "timed out waiting for testrunner"}
TerminateResults == {nil, "terminate failed"}
RunnerOutcomes == {nil, "creating testrunner failed"}

(***************************** the helper ***********************************)
validateDir(dir) ==
    IF Stat(dir) = "missing"
    THEN Wrapf(StatErr(dir), "finding directory: " \o dir)
    ELSE IF Stat(dir) # "dir"
    THEN Errorf("expected a directory. Got: " \o dir)
    ELSE nil

\* validateConfig checking the build asset directory before the test asset one
validateConfig_BuildFirst(config) ==
    LET e1 == validateDir(config.RootDir)
        e2 == validateDir(Join2(config.RootDir, config.TestAssetDir))
        e3 == validateDir(Join2(config.RootDir, config.BuildAssetDir))
    IN  IF e1 # nil THEN e1
        ELSE IF e3 # nil THEN e3
        ELSE IF e2 # nil THEN e2
        ELSE nil

validateConfig(config) ==
    LET e1 == validateDir(config.RootDir)
        e2 == validateDir(Join2(config.RootDir, config.TestAssetDir))
        e3 == validateDir(Join2(config.RootDir, config.BuildAssetDir))
    IN  IF e1 # nil THEN e1
        ELSE IF e2 # nil THEN e2
        ELSE IF e3 # nil THEN e3
        ELSE nil

\* getChartVersion taking the first of several chart versions
getChartVersion_FirstOfMany(config) ==
    LET helmIndexFile == Join3(config.RootDir, config.TestAssetDir,
                               config.HelmRepoIndexFileName)
        loaded == LoadIndexFile(helmIndexFile)
        Entries == loaded[1]
    IN  IF loaded[2] # nil
        THEN <<"", Wrapf(loaded[2], "parsing Helm index file")>>
        ELSE IF config.HelmChartName \notin DOMAIN Entries
        THEN <<"", Errorf("index file does not contain entry with key: "
                           \o config.HelmChartName)>>
        ELSE IF Len(Entries[config.HelmChartName]) = 0
        THEN <<"", Errorf("expected a single entry with name ["
                           \o config.HelmChartName \o "], found: "
                           \o ToString(Len(Entries[config.HelmChartName])))>>
        ELSE <<Entries[config.HelmChartName][1], nil>>

\* getChartVersion(config): <<version, err>>
getChartVersion(config) ==
    LET helmIndexFile == Join3(config.RootDir, config.TestAssetDir,
                               config.HelmRepoIndexFileName)
        loaded == LoadIndexFile(helmIndexFile)
        Entries == loaded[1]
    IN  IF loaded[2] # nil
        THEN <<"", Wrapf(loaded[2], "parsing Helm index file")>>
        ELSE IF config.HelmChartName \notin DOMAIN Entries
        THEN <<"", Errorf("index file does not contain entry with key: "
                           \o config.HelmChartName)>>
        ELSE IF Len(Entries[config.HelmChartName]) = 0
                \/ Len(Entries[config.HelmChartName]) > 1
        THEN <<"", Errorf("expected a single entry with name ["
                           \o config.HelmChartName \o "], found: "
                           \o ToString(Len(Entries[config.HelmChartName])))>>
        ELSE <<Entries[config.HelmChartName][1], nil>>

\* the configuration NewSoloTestHelper works on
EffectiveConfig(configFunc) ==
    IF configFunc # NilPtr THEN ApplyConfigFunc(configFunc, defaults) ELSE defaults

\* the install namespace always taken from the chart version
DefaultNamespace_AlwaysVersion(config, version) == version

\* the install namespace after defaulting
DefaultNamespace(config, version) ==
    IF config.InstallNamespace = "" THEN version ELSE config.InstallNamespace

\* NewSoloTestHelper, the configuration part: <<testConfig, err>>
ResolveConfig(configFunc) ==
    LET testConfig == EffectiveConfig(configFunc)
        verr == validateConfig(testConfig)
        cv == getChartVersion(testConfig)
        withVersion == [testConfig EXCEPT !.version = cv[1]]
    IN  IF verr # nil
        THEN <<testConfig, Wrapf(verr, "test config validation failed")>>
        ELSE IF cv[2] # nil
        THEN <<testConfig, Wrapf(cv[2], "getting Helm chart version")>>
        ELSE <<[withVersion EXCEPT
                  !.InstallNamespace = DefaultNamespace(withVersion, cv[1])],
               nil>>

\* the test runner constructed whatever DeployTestRunner says
InitTestRunner_Always(testConfig, runnerOutcome) ==
    NewTestRunner(testConfig.InstallNamespace, runnerOutcome)

\* NewSoloTestHelper, the optional test runner: <<testRunner, err>>
InitTestRunner(testConfig, runnerOutcome) ==
    IF testConfig.DeployTestRunner
    THEN NewTestRunner(testConfig.InstallNamespace, runnerOutcome)
    ELSE <<NilPtr, nil>>

\* NewSoloTestHelper handing out the helper together with the runner's error
NewHelper_HelperWithError(configFunc, runnerOutcome) ==
    LET rc == ResolveConfig(configFunc)
        tr == InitTestRunner(rc[1], runnerOutcome)
    IN  IF rc[2] # nil
        THEN <<NilPtr, rc[2]>>
        ELSE <<Ptr([TestConfig |-> rc[1], TestRunner |-> tr[1]]),
               Wrapf(tr[2], "initializing testrunner")>>

\* NewSoloTestHelper(configFunc): <<helper, err>>
NewHelper(configFunc, runnerOutcome) ==
    LET rc == ResolveConfig(configFunc)
        tr == InitTestRunner(rc[1], runnerOutcome)
    IN  IF rc[2] # nil
        THEN <<NilPtr, rc[2]>>
        ELSE IF tr[2] # nil
        THEN <<NilPtr, Wrapf(tr[2], "initializing testrunner")>>
        ELSE <<Ptr([TestConfig |-> rc[1], TestRunner |-> tr[1]]), nil>>

\* ChartVersion reading the install namespace
ChartVersionOf_Namespace(h) == Deref(h).TestConfig.InstallNamespace

\* (h *SoloTestHelper) ChartVersion()
ChartVersionOf(h) == Deref(h).TestConfig.version

\* the install command with the license flag appended unconditionally
InstallCommand_AlwaysLicense(h, deploymentType) ==
    LET c == Deref(h).TestConfig
    IN  << Join2(c.BuildAssetDir, c.GlooctlExecName),
           "install", deploymentType,
           "-n", c.InstallNamespace,
           "-f", Join2(c.TestAssetDir,
                       c.HelmChartName \o "-" \o c.version \o ".tgz"),
           "--license-key", c.LicenseKey >>

\* the glooctl command InstallGloo builds
InstallCommand(h, deploymentType) ==
    LET c == Deref(h).TestConfig
        glooctlCommand ==
            << Join2(c.BuildAssetDir, c.GlooctlExecName),
               "install", deploymentType,
               "-n", c.InstallNamespace,
               "-f", Join2(c.TestAssetDir,
                           c.HelmChartName \o "-" \o c.version \o ".tgz") >>
    IN  IF c.LicenseKey # ""
        THEN glooctlCommand \o <<"--license-key", c.LicenseKey>>
        ELSE glooctlCommand

\* the uninstall command aimed at the namespace named after the chart version
UninstallCommand_VersionNamespace(h) ==
    LET c == Deref(h).TestConfig
    IN  << Join2(c.BuildAssetDir, c.GlooctlExecName),
           "uninstall", "-n", c.version >>

\* the glooctl command UninstallGloo builds
UninstallCommand(h) ==
    LET c == Deref(h).TestConfig
    IN  << Join2(c.BuildAssetDir, c.GlooctlExecName),
           "uninstall", "-n", c.InstallNamespace >>

\* one call made on the helper: what it did and what it returned
Call(op, args, effects, ret, value) ==
    [op |-> op, args |-> args, effects |-> effects, ret |-> ret, value |-> value]

\* InstallGloo deploying the runner before looking at the installer's result
InstallGlooCall_DeployRegardless(h, deploymentType, timeout, execResult, deployResult) ==
    LET c == Deref(h).TestConfig
        run == RunCommand(c.RootDir, InstallCommand(h, deploymentType), execResult)
        args == <<deploymentType, ToString(timeout)>>
        dep == IF Deref(h).TestRunner # NilPtr
               THEN <<Deploy(Deref(h).TestRunner, timeout, deployResult)>>
               ELSE <<>>
    IN  IF execResult # nil
        THEN Call("InstallGloo", args, <<run>> \o dep,
                  Wrapf(execResult, "error while installing gloo"), "")
        ELSE IF dep # <<>> /\ deployResult # nil
        THEN Call("InstallGloo", args, <<run>> \o dep,
                  Wrapf(deployResult, "deploying testrunner"), "")
        ELSE Call("InstallGloo", args, <<run>> \o dep, nil, "")

\* InstallGloo(deploymentType, timeout): its effects and its return value
InstallGlooCall(h, deploymentType, timeout, execResult, deployResult) ==
    LET c == Deref(h).TestConfig
        run == RunCommand(c.RootDir, InstallCommand(h, deploymentType), execResult)
        dep == Deploy(Deref(h).TestRunner, timeout, deployResult)
        args == <<deploymentType, ToString(timeout)>>
    IN  IF execResult # nil
        THEN Call("InstallGloo", args, <<run>>,
                  Wrapf(execResult, "error while installing gloo"), "")
        ELSE IF Deref(h).TestRunner # NilPtr
        THEN IF deployResult # nil
             THEN Call("InstallGloo", args, <<run, dep>>,
                       Wrapf(deployResult, "deploying testrunner"), "")
             ELSE Call("InstallGloo", args, <<run, dep>>, nil, "")
        ELSE Call("InstallGloo", args, <<run>>, nil, "")

\* UninstallGloo giving up when the runner cannot be terminated
UninstallGlooCall_AbortOnTerminate(h, terminateResult, execResult) ==
    LET c == Deref(h).TestConfig
        run == RunCommand(c.RootDir, UninstallCommand(h), execResult)
    IN  IF Deref(h).TestRunner = NilPtr
        THEN Call("UninstallGloo", <<>>, <<run>>, execResult, "")
        ELSE IF terminateResult # nil
        THEN Call("UninstallGloo", <<>>,
                  <<Terminate(Deref(h).TestRunner, terminateResult)>>,
                  Wrapf(terminateResult, "terminating testrunner"), "")
        ELSE Call("UninstallGloo", <<>>,
                  <<Terminate(Deref(h).TestRunner, terminateResult), run>>,
                  execResult, "")

\* UninstallGloo(): its effects and its return value
UninstallGlooCall(h, terminateResult, execResult) ==
    LET c == Deref(h).TestConfig
        term == IF Deref(h).TestRunner # NilPtr
                THEN <<Terminate(Deref(h).TestRunner, terminateResult)>>
                ELSE <<>>
        run == RunCommand(c.RootDir, UninstallCommand(h), execResult)
    IN  Call("UninstallGloo", <<>>, term \o <<run>>, execResult, "")

\* ChartVersion(): no effect, returns the version
ChartVersionCall(h) ==
    Call("ChartVersion", <<>>, <<>>, nil, ChartVersionOf(h))

(***************************** state machine ********************************)
\* The file systems a test run starts in: a root that is missing, a file or
\* a directory; below a root directory, the two asset directories likewise.
Paths == {"root", "root/_test", "root/_output"}
FileSystems ==
    { f \in UNION { [D -> {"file", "dir"}] : D \in SUBSET Paths } :
        ("root" \notin DOMAIN f \/ f["root"] # "dir") => DOMAIN f \subseteq {"root"} }

NoIndexFile == [path |-> "root/_test/index.yaml", parses |-> FALSE, Entries |-> <<>>]

NoInput == [configFunc |-> NilPtr, runnerOutcome |-> nil]

Init ==
    /\ fs \in FileSystems
    /\ index \in
         IF Stat("root/_test") = "dir"
         THEN [path : {"root/_test/index.yaml"}, parses : {TRUE},
               Entries : IndexEntries] \cup {NoIndexFile}
         ELSE {NoIndexFile}
    /\ called = FALSE
    /\ input = NoInput
    /\ helper = NilPtr
    /\ newErr = nil
    /\ calls = <<>>
    /\ panicked = FALSE

NewSoloTestHelper ==
    /\ ~called
    /\ \E configFunc \in ConfigFuncs, runnerOutcome \in RunnerOutcomes :
          LET r == NewHelper(configFunc, runnerOutcome)
          IN  /\ helper' = r[1]
              /\ newErr' = r[2]
              /\ input' = [configFunc |-> configFunc,
                           runnerOutcome |-> runnerOutcome]
    /\ called' = TRUE
    /\ UNCHANGED <<fs, index, calls, panicked>>

CanCall == called /\ ~panicked /\ Len(calls) < MaxOps

InstallGloo ==
    /\ CanCall
    /\ \E deploymentType \in DeploymentTypes, timeout \in Timeouts,
          execResult \in ExecResults, deployResult \in DeployResults :
          IF helper = NilPtr
          THEN panicked' = TRUE /\ UNCHANGED calls
          ELSE /\ calls' = Append(calls,
                      InstallGlooCall(helper, deploymentType, timeout,
                                      execResult, deployResult))
               /\ UNCHANGED panicked
    /\ UNCHANGED <<fs, index, called, input, helper, newErr>>

UninstallGloo ==
    /\ CanCall
    /\ \E terminateResult \in TerminateResults, execResult \in ExecResults :
          IF helper = NilPtr
          THEN panicked' = TRUE /\ UNCHANGED calls
          ELSE /\ calls' = Append(calls,
                      UninstallGlooCall(helper, terminateResult, execResult))
               /\ UNCHANGED panicked
    /\ UNCHANGED <<fs, index, called, input, helper, newErr>>

ChartVersion ==
    /\ CanCall
    /\ IF helper = NilPtr
       THEN panicked' = TRUE /\ UNCHANGED calls
       ELSE calls' = Append(calls, ChartVersionCall(helper)) /\ UNCHANGED panicked
    /\ UNCHANGED <<fs, index, called, input, helper, newErr>>

Next ==
    \/ NewSoloTestHelper
    \/ InstallGloo
    \/ UninstallGloo
    \/ ChartVersion

Spec == Init /\ [][Next]_vars

(***************************** properties ***********************************)
\* what NewSoloTestHelper was given, read back from the history
Config == EffectiveConfig(input.configFunc)
RootPath == Config.RootDir
TestPath == Config.RootDir \o "/" \o Config.TestAssetDir
BuildPath == Config.RootDir \o "/" \o Config.BuildAssetDir
IsDir(p) == p \in DOMAIN fs /\ fs[p] = "dir"
DirsOk == IsDir(RootPath) /\ IsDir(TestPath) /\ IsDir(BuildPath)
FirstBadDir ==
    IF ~IsDir(RootPath) THEN RootPath
    ELSE IF ~IsDir(TestPath) THEN TestPath
    ELSE BuildPath
Resolvable ==
    /\ index.parses
    /\ Config.HelmChartName \in DOMAIN index.Entries
    /\ Len(index.Entries[Config.HelmChartName]) = 1
TheVersion == index.Entries[Config.HelmChartName][1]
RunnerFails == Config.DeployTestRunner /\ input.runnerOutcome # nil

\* the resolved helper's parts
Cfg == Deref(helper).TestConfig
Runner == Deref(helper).TestRunner

CallsOf(op) == { i \in 1..Len(calls) : calls[i].op = op }
EventsOf(c, kind) == { j \in 1..Len(c.effects) : c.effects[j].kind = kind }
IsCommand(e, sub) == e.kind = "exec" /\ Len(e.args) >= 2 /\ e.args[2] = sub

\* C1: UninstallGloo on a helper with a runner attempts Terminate first and,
\* whether that succeeds or fails, then runs the uninstall command exactly
\* once; it returns that command's result, never the termination error.
C1_UninstallBestEffort ==
    \A i \in CallsOf("UninstallGloo") :
        Runner # NilPtr =>
            LET e == calls[i].effects
            IN  /\ Len(e) = 2
                /\ e[1].kind = "terminate"
                /\ IsCommand(e[2], "uninstall")
                /\ calls[i].ret = e[2].result
                /\ (e[1].result # nil => calls[i].ret # e[1].result)

C1_Witness ==
    \E i \in CallsOf("UninstallGloo") :
        /\ Runner # NilPtr
        /\ calls[i].effects[1].result # nil
        /\ IsCommand(calls[i].effects[2], "uninstall")
        /\ calls[i].ret = nil

\* C2: NewSoloTestHelper fails fast: a missing or non-directory root, test
\* asset or build asset directory (checked in that order, the error naming
\* the first offender), an unresolvable chart version or a failing runner
\* construction give an error and no helper, and in a failing run nothing
\* has been executed or deployed.
C2_FailFast ==
    called =>
        /\ (~DirsOk \/ ~Resolvable \/ RunnerFails) => (newErr # nil /\ helper = NilPtr)
        /\ ~DirsOk =>
              newErr = IF FirstBadDir \notin DOMAIN fs
                       THEN "test config validation failed: finding directory: "
                            \o FirstBadDir \o ": stat " \o FirstBadDir
                            \o ": no such file or directory"
                       ELSE "test config validation failed: expected a directory. Got: "
                            \o FirstBadDir
        /\ newErr # nil =>
              /\ helper = NilPtr
              /\ \A i \in 1..Len(calls) : calls[i].effects = <<>>
              /\ calls = <<>>

C2_Witness ==
    /\ called /\ newErr # nil /\ helper = NilPtr
    /\ IsDir(RootPath) /\ ~IsDir(TestPath) /\ ~IsDir(BuildPath)
    /\ panicked /\ calls = <<>>

\* C3: with valid directories, the chart version resolves exactly when the
\* index file loads and holds one chart version under the chart name; the
\* version is then that entry's; an absent name, an empty list or a list
\* of two or more give an error and no helper.
C3_SingleEntry ==
    (called /\ DirsOk) =>
        /\ (getChartVersion(Config)[2] = nil) <=> Resolvable
        /\ Resolvable => getChartVersion(Config)[1] = TheVersion
        /\ (Resolvable /\ helper # NilPtr) => Cfg.version = TheVersion
        /\ ~Resolvable => (helper = NilPtr /\ newErr # nil)

C3_Witness ==
    /\ called /\ DirsOk /\ index.parses
    /\ Config.HelmChartName \in DOMAIN index.Entries
    /\ Len(index.Entries[Config.HelmChartName]) = 2
    /\ helper = NilPtr /\ newErr # nil

\* C4: after a successful NewSoloTestHelper the install namespace is the
\* chart version when the effective configuration left it empty, and the
\* configured namespace otherwise.
C4_NamespaceDefault ==
    helper # NilPtr =>
        /\ Config.InstallNamespace = "" => Cfg.InstallNamespace = TheVersion
        /\ Config.InstallNamespace # "" => Cfg.InstallNamespace = Config.InstallNamespace

C4_Witness ==
    /\ helper # NilPtr
    /\ Config.InstallNamespace = ""
    /\ TheVersion = "1.2.3"
    /\ Cfg.InstallNamespace = "1.2.3"

\* C5: the command of InstallGloo(mode, timeout) is the executable under the
\* build asset directory, "install", the mode, "-n" and the namespace, "-f"
\* and the chart archive under the test asset directory, followed by
\* "--license-key" and the key exactly when a key is configured.
C5_InstallCommand ==
    \A i \in CallsOf("InstallGloo") :
        LET cmd == calls[i].effects[1]
            base == << Cfg.BuildAssetDir \o "/" \o Cfg.GlooctlExecName,
                       "install", calls[i].args[1],
                       "-n", Cfg.InstallNamespace,
                       "-f", Cfg.TestAssetDir \o "/" \o Cfg.HelmChartName
                             \o "-" \o Cfg.version \o ".tgz" >>
        IN  /\ cmd.kind = "exec"
            /\ cmd.dir = Cfg.RootDir
            /\ Cfg.LicenseKey # "" =>
                  cmd.args = base \o <<"--license-key", Cfg.LicenseKey>>
            /\ Cfg.LicenseKey = "" => cmd.args = base

C5_Witness ==
    \E i \in CallsOf("InstallGloo") :
        /\ calls[i].args[1] = GATEWAY
        /\ Cfg.LicenseKey = "ABC"
        /\ Len(calls[i].effects[1].args) = 9
        /\ SubSeq(calls[i].effects[1].args, 8, 9) = <<"--license-key", "ABC">>

\* C6: the helper has a runner exactly when DeployTestRunner is set: set, the
\* runner is constructed and a failing construction fails NewSoloTestHelper;
\* unset, there is no runner and no call ever deploys or terminates one.
C6_RunnerIffEnabled ==
    /\ helper # NilPtr => (Runner # NilPtr <=> Config.DeployTestRunner)
    /\ (called /\ DirsOk /\ Resolvable /\ RunnerFails) =>
          (helper = NilPtr /\ newErr # nil)
    /\ (called /\ DirsOk /\ Resolvable /\ ~Config.DeployTestRunner) =>
          /\ helper # NilPtr /\ Runner = NilPtr
          /\ \A i \in 1..Len(calls) :
                EventsOf(calls[i], "deploy") \cup EventsOf(calls[i], "terminate") = {}

C6_Witness ==
    /\ helper # NilPtr /\ ~Config.DeployTestRunner /\ Runner = NilPtr
    /\ \E i \in CallsOf("InstallGloo") : calls[i].ret = nil
    /\ \E i \in CallsOf("UninstallGloo") : calls[i].ret = nil

\* the lifecycle state: Unresolved until NewSoloTestHelper hands out a
\* helper, then Resolved, then that of the last InstallGloo or UninstallGloo
\* that returned no error
Succeeded == { i \in CallsOf("InstallGloo") \cup CallsOf("UninstallGloo") :
                 calls[i].ret = nil }
LastSucceeded == CHOOSE i \in Succeeded : \A j \in Succeeded : j <= i
Phase ==
    IF helper = NilPtr THEN "Unresolved"
    ELSE IF Succeeded = {} THEN "Resolved"
    ELSE IF calls[LastSucceeded].op = "InstallGloo" THEN "Installed"
    ELSE "Uninstalled"

C8_InstallOnce ==
    \A i \in CallsOf("InstallGloo") :
        LET e == calls[i].effects
            deploys == EventsOf(calls[i], "deploy")
        IN  /\ EventsOf(calls[i], "exec") = {1}
            /\ IsCommand(e[1], "install")
            /\ EventsOf(calls[i], "terminate") = {}
            /\ Cardinality(deploys) <= 1
            /\ \A j \in deploys :
                  /\ j = 2
                  /\ e[1].result = nil
                  /\ Runner # NilPtr
                  /\ ToString(e[j].timeout) = calls[i].args[2]
                  /\ e[j].result # nil => calls[i].ret # nil
            /\ (e[1].result = nil /\ Runner # NilPtr) => deploys # {}
            /\ e[1].result # nil => (calls[i].ret # nil /\ deploys = {})
            /\ calls[i].ret = nil <=> \A j \in 1..Len(e) : e[j].result = nil

C8_Witness ==
    \E i \in CallsOf("InstallGloo") :
        /\ Len(calls[i].effects) = 2
        /\ calls[i].effects[1].result = nil
        /\ calls[i].effects[2].kind = "deploy"
        /\ calls[i].effects[2].timeout = 30
        /\ calls[i].effects[2].result # nil
        /\ calls[i].ret # nil

\* the version and the configuration as NewSoloTestHelper resolved them
C9_Resolved ==
    helper # NilPtr =>
        /\ Cfg = [Config EXCEPT !.version = TheVersion,
                                !.InstallNamespace =
                                    IF Config.InstallNamespace = ""
                                    THEN TheVersion
                                    ELSE Config.InstallNamespace]
        /\ \A i \in CallsOf("ChartVersion") : calls[i].value = TheVersion

C9_SetOnce ==
    /\ helper' # helper => (~called /\ calls = <<>>)
    /\ helper # NilPtr => helper' = helper

\* C9: the version is set once, by NewSoloTestHelper, before any install
\* operation; afterwards no InstallGloo or UninstallGloo call changes the
\* helper's configuration, and ChartVersion() returns the resolved version.
C9_ConfigFrozen == [] C9_Resolved /\ [][C9_SetOnce]_vars

C9_Witness ==
    /\ helper # NilPtr
    /\ Cfg.version = "0.9.0"
    /\ \E i \in CallsOf("InstallGloo") : calls[i].ret # nil
    /\ calls[Len(calls)].op = "ChartVersion"
    /\ calls[Len(calls)].value = "0.9.0"

\* C10: the namespace the runner was constructed with, the "-n" argument of
\* every install command and that of every uninstall command are all the
\* helper's resolved install namespace.
C10_NamespaceConsistent ==
    helper # NilPtr =>
        /\ Runner # NilPtr => Deref(Runner).namespace = Cfg.InstallNamespace
        /\ \A i \in 1..Len(calls) : \A j \in 1..Len(calls[i].effects) :
              LET e == calls[i].effects[j]
              IN  /\ IsCommand(e, "install") =>
                        (e.args[4] = "-n" /\ e.args[5] = Cfg.InstallNamespace)
                  /\ IsCommand(e, "uninstall") =>
                        (e.args[3] = "-n" /\ e.args[4] = Cfg.InstallNamespace)
                  /\ e.kind \in {"deploy", "terminate"} =>
                        e.ns = Cfg.InstallNamespace

C10_Witness ==
    /\ helper # NilPtr /\ Runner # NilPtr
    /\ Config.InstallNamespace = ""
    /\ Deref(Runner).namespace = TheVersion
    /\ \E i \in CallsOf("InstallGloo") :
          calls[i].effects[1].args[5] = TheVersion
    /\ \E i \in CallsOf("UninstallGloo") :
          calls[i].effects[2].args[4] = TheVersion

====
